---- MODULE Spec2Model ----
(***************************************************************************)
(* Model of mdn/content-inventory.                                         *)
(*                                                                         *)
(*   scripts/publish-historic.mjs  the historic publish driver: main(),    *)
(*                                 npmRun(), completedReleases()           *)
(*   lib/inventory.mjs             Inventory: init() and its stages, the   *)
(*                                 date to commit resolution of checkout() *)
(*                                 that a day's build uses, the extraction *)
(*                                 subprocess, redirects(), toObject()     *)
(*                                                                         *)
(* Instants are seconds since the Unix epoch (UTC).  Strings are sequences *)
(* of one-character strings, so that slice, replaceAll and includes are    *)
(* computed as the code computes them.                                     *)
(***************************************************************************)
EXTENDS Integers, Sequences, FiniteSets, TLC

(***************************************************************************)
(* Bounds of the model.                                                    *)
(***************************************************************************)
\* the clock read by main() lies within this many calendar days from START_DATE
MaxDays == 3
\* number of invocations of the driver in one behaviour
MaxRuns == 2

(***************************************************************************)
(* Program constants.                                                      *)
(***************************************************************************)
\* Temporal.Instant.from("2023-10-01T00:00:00.000Z"), in epoch seconds
START_DATE == 1696118400
\* one calendar day in UTC: target.add({ days: 1 })
SecondsPerDay == 86400
\* midday, an instant inside a day that is not its midnight
Noon == SecondsPerDay \div 2

(***************************************************************************)
(* Strings.                                                                *)
(***************************************************************************)
Digits == <<"0", "1", "2", "3", "4", "5", "6", "7", "8", "9">>

Digit(n) == Digits[n + 1]

\* n printed in decimal, zero padded to width w
RECURSIVE Pad(_, _)
Pad(n, w) == IF w = 0 THEN <<>> ELSE Pad(n \div 10, w - 1) \o <<Digit(n % 10)>>

\* String.prototype.includes: t occurs in s as a substring
Includes(s, t) ==
  \E i \in 0..(Len(s) - Len(t)) : SubSeq(s, i + 1, i + Len(t)) = t

\* String.prototype.slice(0, n)
Slice0(s, n) == SubSeq(s, 1, IF n < Len(s) THEN n ELSE Len(s))

\* String.prototype.replaceAll(c, "") for a one-character c
RECURSIVE RemoveAll(_, _)
RemoveAll(s, c) ==
  IF s = <<>> THEN <<>>
  ELSE (IF Head(s) = c THEN <<>> ELSE <<Head(s)>>) \o RemoveAll(Tail(s), c)

(***************************************************************************)
(* Calendar: a UTC instant to its ISO 8601 text, as                        *)
(* Temporal.ZonedDateTime.prototype.toString prints it.                    *)
(***************************************************************************)
DayNumber(t) == t \div SecondsPerDay

\* proleptic Gregorian date of a day number (days since 1970-01-01)
CivilFromDays(n) ==
  LET z   == n + 719468
      era == z \div 146097
      doe == z - era * 146097
      yoe == (doe - doe \div 1460 + doe \div 36524 - doe \div 146096) \div 365
      doy == doe - (365 * yoe + yoe \div 4 - yoe \div 100)
      mp  == (5 * doy + 2) \div 153
      d   == doy - (153 * mp + 2) \div 5 + 1
      m   == IF mp < 10 THEN mp + 3 ELSE mp - 9
      y   == yoe + era * 400 + (IF m <= 2 THEN 1 ELSE 0)
  IN [year |-> y, month |-> m, day |-> d]

\* target.toString(): "2023-10-01T00:00:00+00:00[UTC]"
ZonedToString(t) ==
  LET c == CivilFromDays(DayNumber(t))
      s == t % SecondsPerDay
  IN Pad(c.year, 4) \o <<"-">> \o Pad(c.month, 2) \o <<"-">> \o Pad(c.day, 2)
     \o <<"T">> \o Pad(s \div 3600, 2) \o <<":">> \o Pad((s \div 60) % 60, 2)
     \o <<":">> \o Pad(s % 60, 2)
     \o <<"+", "0", "0", ":", "0", "0", "[", "U", "T", "C", "]">>

\* target.toString().slice(0, 10).replaceAll("-", "")
ForthcomingDate(t) == RemoveAll(Slice0(ZonedToString(t), 10), "-")

\* target.add({ days: 1 }) in the UTC time zone
AddOneDay(t) == t + SecondsPerDay

\* a loop that stops one day early: compare(target, now) < 0
LoopConditionStrict(t, n) == t < n

\* Temporal.ZonedDateTime.compare(target, now) < 1
LoopCondition(t, n) == t <= n

(***************************************************************************)
(* lib/inventory.mjs: Inventory.checkout(ref, date), the resolution of the *)
(* commit of a day.  A history is the commits of the reference, oldest     *)
(* first, each with its commit instant and its short hash.                 *)
(***************************************************************************)
\* ZonedDateTime.prototype.startOfDay() in UTC
StartOfDay(t) == (t \div SecondsPerDay) * SecondsPerDay

\* a cutoff at the last second of the day
CheckoutTargetEndOfDay(date) ==
  StartOfDay(date) + SecondsPerDay - 1

\* Temporal.PlainDate.from(date).toZonedDateTime({ timeZone: "UTC",
\*   plainTime: "00:00:01" }).startOfDay()
CheckoutTarget(date) ==
  StartOfDay(DayNumber(date) * SecondsPerDay + 1)

\* a listing that yields the oldest commit up to the cutoff
RevListOldest(history, cutoff) ==
  LET upto == {i \in 1..Len(history) : history[i].at <= cutoff}
  IN IF upto = {} THEN <<>> ELSE <<history[1].short>>

\* git rev-list -1 --before=<cutoff> ref: the newest commit whose instant is
\* not after the cutoff, as the lines of the output (none or one)
RevList(history, cutoff) ==
  LET upto == {i \in 1..Len(history) : history[i].at <= cutoff}
  IN IF upto = {} THEN <<>>
     ELSE <<history[CHOOSE i \in upto : \A j \in upto : j <= i].short>>

\* the hash checkout() switches to, or "none" when it throws
\* "Could not find commit near to ..."
NoCommit == <<>>
CheckoutHash(history, date) ==
  LET lines == RevList(history, CheckoutTarget(date))
  IN IF lines = <<>> THEN NoCommit ELSE lines[Len(lines)]

\* the short hash of the i-th commit of a history
ShortHash(i) == <<"c", "0", "f", "f", "e", "e">> \o <<Digit(i % 10)>>

\* one commit at noon of every day, from the day before START_DATE
HistoryDaily ==
  [i \in 1..MaxDays |->
     [at |-> START_DATE + (i - 2) * SecondsPerDay + Noon, short |-> ShortHash(i)]]

\* a single commit, made before START_DATE: every day resolves to it
HistoryOnce == <<HistoryDaily[1]>>

Histories == {HistoryDaily, HistoryOnce}

(***************************************************************************)
(* The build of a day (npm run build -- --date=...), at its interface: it  *)
(* checks out the commit of the day and writes package/package.json        *)
(* (version) and package/index.json (metadata.commitShort).                *)
(***************************************************************************)
BaseVersion == <<"1", ".", "2", ".", "3">>

\* a version identifier embeds the date-stamp and the short hash:
\* "1.2.3-20231005-abc1234"
VersionOf(stamp, hash) == BaseVersion \o <<"-">> \o stamp \o <<"-">> \o hash

NoPackage == [version |-> <<>>, commitShort |-> <<>>]

BuildPackage(history, date) ==
  LET h == CheckoutHash(history, date)
  IN [version |-> VersionOf(ForthcomingDate(date), h), commitShort |-> h]

\* the build can only succeed when checkout() finds a commit
BuildCanSucceed(history, date) == CheckoutHash(history, date) # NoCommit

(***************************************************************************)
(* The registry: the keys of `npm view @mdn/content-inventory time`.       *)
(***************************************************************************)
KeyCreated == <<"c", "r", "e", "a", "t", "e", "d">>

\* a version published before the first run, for the second day
KeyDayTwo ==
  VersionOf(ForthcomingDate(AddOneDay(START_DATE)),
            <<"f", "f", "f", "f", "f", "f", "f">>)

Registries0 == {{}, {KeyCreated, KeyDayTwo}}

\* the registry accepts a version once: exit status 0 requires a new version
PublishCanSucceed(reg, version) == version \notin reg

RegistryAfterPublish(reg, version) == reg \cup {version}

(***************************************************************************)
(* scripts/publish-historic.mjs                                            *)
(***************************************************************************)
VARIABLES
  history,            \* the commits of the reference (fixed in a behaviour)
  registry,           \* the version keys the registry holds
  argv,               \* the flags of this invocation: dryRun, continue
  now,                \* Temporal.Now read by main()
  target,             \* the loop variable of main()
  pc,                 \* the position of main()
  package,            \* package/package.json and package/index.json
  forthcomingVersion, \* locals of the loop body
  forthcomingHash,
  forthcomingDate,
  alreadyPublished,
  calls,              \* the subprocess calls of this invocation, in order
  decisions,          \* the decision taken on each day of this invocation
  registry0,          \* the registry when this invocation started
  failedAt,           \* what ended this invocation with an uncaught error
  run,                \* the number of this invocation
  prev                \* a summary of the invocation before this one

vars ==
  <<history, registry, argv, now, target, pc, package, forthcomingVersion,
    forthcomingHash, forthcomingDate, alreadyPublished, calls, decisions,
    registry0, failedAt, run, prev>>

(***************************************************************************)
(* lib/inventory.mjs: one Inventory instance, its working copy at destPath *)
(* and the extraction subprocess it spawns                                 *)
(***************************************************************************)
VARIABLES
  cloned,             \* destPath and destPath/.git exist (line 87-88: the
                      \* same branch without destPath and without .git)
  HEAD,               \* the commit the working copy has checked out
  ipc,                \* the position of init()
  dateArg,            \* the date argument of init(), absent or one instant
  checkoutRef,        \* the ref variable of checkout()
  rawInventoryStdOut, \* fields of the instance
  rawInventoryStdErr,
  rawRedirects,       \* undefined, or the text of the redirect file
  child,              \* the subprocess of loadInventory() and what it emitted
  promise,            \* the promise loadInventory() returned
  stages,             \* the stages this init() call started, in order
  logged,             \* what this init() call passed to logger.error
  thrown,             \* the error this init() call rejected with
  inits,              \* the outcome of every init() call that ended
  artifact,           \* the result of the last toObject() or redirects() call
                      \* on the instance as it is now
  parses              \* how often redirects() ran on the present text

invVars ==
  <<cloned, HEAD, ipc, dateArg, checkoutRef, rawInventoryStdOut,
    rawInventoryStdErr,
    rawRedirects, child, promise, stages, logged, thrown, inits, artifact,
    parses>>

\* a value that is absent (undefined, null), as a sequence of none or one
Undefined == <<>>

NoChild == [state |-> "none", out |-> <<>>, err |-> <<>>]

NoPromise == [state |-> "none", value |-> Undefined, settled |-> 0]

NoResult == [called |-> "none", threw |-> FALSE, value |-> Undefined]

MainRef == <<"m", "a", "i", "n">>

\* new Inventory(opts), before destPath exists
Constructor ==
  /\ cloned = FALSE
  /\ HEAD = Undefined
  /\ ipc = "idle"
  /\ dateArg = Undefined
  /\ checkoutRef = MainRef
  /\ rawInventoryStdOut = <<>>
  /\ rawInventoryStdErr = <<>>
  /\ rawRedirects = Undefined
  /\ child = NoChild
  /\ promise = NoPromise
  /\ stages = <<>>
  /\ logged = <<>>
  /\ thrown = "none"
  /\ inits = <<>>
  /\ artifact = NoResult
  /\ parses = 0

\* exit statuses of a subprocess: success and one failure
ExitCodes == {0, 1}

\* outcomes of `npm view ... time --json`: parsable output, or an error thrown
\* inside the try block (execFileSync on a network or registry error or on a
\* package not published yet, JSON.parse on unparsable output)
LedgerOutcomes == {"ok", "error"}

Flags == [dryRun : BOOLEAN, continue : BOOLEAN]

\* the instants the clock can show: midnight and noon of each day
NowChoices ==
  {START_DATE + k * SecondsPerDay + o : k \in 0..(MaxDays - 1), o \in {0, Noon}}

NoPrev == [run |-> 0]

\* an npmRun that swallows the exit status of the subprocess
npmRunIgnoresExit(exit) == [threw |-> FALSE]

\* npmRun(command, ...moreArgs): execFileSync throws on a non-zero exit status
npmRun(exit) == [threw |-> exit # 0]

\* a completedReleases without its try/catch: the error reaches main()
completedReleasesPropagates(outcome, reg) ==
  [threw |-> outcome # "ok", value |-> IF outcome = "ok" THEN reg ELSE {}]

\* a completedReleases that always answers {}
completedReleasesNothing(outcome, reg) == [threw |-> FALSE, value |-> {}]

\* completedReleases(): the parsed output, or {} on any error
completedReleases(outcome, reg) ==
  IF outcome = "ok" THEN [threw |-> FALSE, value |-> reg]
  ELSE [threw |-> FALSE, value |-> {}]

\* a scan that looks for the date-stamp only
AlreadyPublishedDateOnly(keys, date, hash) ==
  \E version \in keys : Includes(version, date)

\* a scan that wants the date-stamp and the hash in the same key
AlreadyPublishedBoth(keys, date, hash) ==
  \E version \in keys : Includes(version, date) /\ Includes(version, hash)

\* the for loop over Object.keys(completedReleases())
AlreadyPublished(keys, date, hash) ==
  \E version \in keys : Includes(version, date) \/ Includes(version, hash)

\* a duplicate is always skipped, whatever --continue
OnAlreadyPublishedAlwaysSkip(flags) == "teardown"

\* a duplicate always throws, whatever --continue
OnAlreadyPublishedAlwaysThrow(flags) == "failed"

\* a dry run skips a duplicate instead of throwing
OnAlreadyPublishedDryRunSkips(flags) ==
  IF flags.continue \/ flags.dryRun THEN "teardown" ELSE "failed"

\* if (alreadyPublished) { if (argv.continue) warn else throw }
OnAlreadyPublished(flags) == IF flags.continue THEN "teardown" ELSE "failed"

\* the real publish script whatever --dry-run
PublishScriptAlwaysPublish(flags) == "publish"

\* if (argv.dryRun) npmRun("publish:dry-run") else npmRun("publish")
PublishScript(flags) == IF flags.dryRun THEN "publish:dry-run" ELSE "publish"

Call(cmd, line, exit) ==
  [cmd |-> cmd, line |-> line, target |-> target, exit |-> exit]

Fail(what) ==
  /\ pc' = "failed"
  /\ failedAt' = what

Init ==
  /\ history \in Histories
  /\ registry \in Registries0
  /\ argv \in Flags
  /\ now = START_DATE
  /\ target = START_DATE
  /\ pc = "start"
  /\ package = NoPackage
  /\ forthcomingVersion = <<>>
  /\ forthcomingHash = <<>>
  /\ forthcomingDate = <<>>
  /\ alreadyPublished = FALSE
  /\ calls = <<>>
  /\ decisions = <<>>
  /\ registry0 = registry
  /\ failedAt = "none"
  /\ run = 1
  /\ prev = NoPrev
  /\ Constructor

\* const now = Temporal.Now.zonedDateTimeISO("UTC"); let target = START_DATE
Main ==
  /\ pc = "start"
  /\ \E n \in NowChoices :
       /\ prev.run > 0 => n >= prev.now
       /\ now' = n
  /\ target' = START_DATE
  /\ pc' = "loop"
  /\ UNCHANGED <<history, registry, argv, package, forthcomingVersion,
                 forthcomingHash, forthcomingDate, alreadyPublished, calls,
                 decisions, registry0, failedAt, run, prev>>
  /\ UNCHANGED invVars

\* while (Temporal.ZonedDateTime.compare(target, now) < 1)
LoopTest ==
  /\ pc = "loop"
  /\ pc' = IF LoopCondition(target, now) THEN "clean" ELSE "done"
  /\ UNCHANGED <<history, registry, argv, now, target, package,
                 forthcomingVersion, forthcomingHash, forthcomingDate,
                 alreadyPublished, calls, decisions, registry0, failedAt, run,
                 prev>>
  /\ UNCHANGED invVars

\* npmRun("clean") at the head of the loop body
Clean ==
  /\ pc = "clean"
  /\ \E exit \in ExitCodes :
       /\ calls' = Append(calls, Call("clean", 55, exit))
       /\ IF npmRun(exit).threw
          THEN Fail("clean") /\ UNCHANGED package
          ELSE pc' = "build" /\ package' = NoPackage /\ UNCHANGED failedAt
  /\ UNCHANGED <<history, registry, argv, now, target, forthcomingVersion,
                 forthcomingHash, forthcomingDate, alreadyPublished, decisions,
                 registry0, run, prev>>
  /\ UNCHANGED invVars

\* npmRun("build", `--date=${target.toString()}`)
Build ==
  /\ pc = "build"
  /\ \E exit \in ExitCodes :
       /\ exit = 0 => BuildCanSucceed(history, target)
       /\ calls' = Append(calls, Call("build", 56, exit))
       /\ IF npmRun(exit).threw
          THEN Fail("build") /\ UNCHANGED package
          ELSE /\ pc' = "identify"
               /\ package' = BuildPackage(history, target)
               /\ UNCHANGED failedAt
  /\ UNCHANGED <<history, registry, argv, now, target, forthcomingVersion,
                 forthcomingHash, forthcomingDate, alreadyPublished, decisions,
                 registry0, run, prev>>
  /\ UNCHANGED invVars

\* forthcomingVersion, forthcomingHash and forthcomingDate
Identify ==
  /\ pc = "identify"
  /\ forthcomingVersion' = package.version
  /\ forthcomingHash' = package.commitShort
  /\ forthcomingDate' = ForthcomingDate(target)
  /\ pc' = "dedupe"
  /\ UNCHANGED <<history, registry, argv, now, target, package,
                 alreadyPublished, calls, decisions, registry0, failedAt, run,
                 prev>>
  /\ UNCHANGED invVars

\* the ledger query and the scan of its keys
Dedupe ==
  /\ pc = "dedupe"
  /\ \E outcome \in LedgerOutcomes :
       LET r == completedReleases(outcome, registry)
       IN /\ calls' = Append(calls, Call("view", 125, IF outcome = "ok" THEN 0 ELSE 1))
          /\ IF r.threw
             THEN /\ Fail("ledger")
                  /\ UNCHANGED <<alreadyPublished, decisions>>
             ELSE /\ alreadyPublished' =
                       AlreadyPublished(r.value, forthcomingDate, forthcomingHash)
                  /\ decisions' =
                       Append(decisions,
                              [target |-> target, date |-> forthcomingDate,
                               hash |-> forthcomingHash, outcome |-> outcome,
                               keys |-> r.value, decision |-> "pending"])
                  /\ pc' = "decide"
                  /\ UNCHANGED failedAt
  /\ UNCHANGED <<history, registry, argv, now, target, package,
                 forthcomingVersion, forthcomingHash, forthcomingDate,
                 registry0, run, prev>>
  /\ UNCHANGED invVars

Decided(d) == [decisions EXCEPT ![Len(decisions)].decision = d]

\* if (alreadyPublished) { skip or throw } else { publish or dry-run publish }
Decide ==
  /\ pc = "decide"
  /\ IF alreadyPublished
     THEN /\ pc' = OnAlreadyPublished(argv)
          /\ failedAt' = IF pc' = "failed" THEN "duplicate" ELSE failedAt
          /\ decisions' = Decided(IF pc' = "failed" THEN "Abort" ELSE "Skip")
          /\ UNCHANGED <<calls, registry>>
     ELSE \E exit \in ExitCodes :
            LET script == PublishScript(argv)
            IN /\ (script = "publish" /\ exit = 0)
                    => PublishCanSucceed(registry, forthcomingVersion)
               /\ calls' =
                    Append(calls, Call(script, IF script = "publish" THEN 91 ELSE 89, exit))
               /\ decisions' = Decided("Publish")
               /\ IF npmRun(exit).threw
                  THEN Fail("publish") /\ UNCHANGED registry
                  ELSE /\ pc' = "teardown"
                       /\ registry' =
                            IF script = "publish"
                            THEN RegistryAfterPublish(registry, forthcomingVersion)
                            ELSE registry
                       /\ UNCHANGED failedAt
  /\ UNCHANGED <<history, argv, now, target, package, forthcomingVersion,
                 forthcomingHash, forthcomingDate, alreadyPublished, registry0,
                 run, prev>>
  /\ UNCHANGED invVars

\* npmRun("clean"); target = target.add({ days: 1 })
Teardown ==
  /\ pc = "teardown"
  /\ \E exit \in ExitCodes :
       /\ calls' = Append(calls, Call("clean", 95, exit))
       /\ IF npmRun(exit).threw
          THEN /\ Fail("teardown")
               /\ UNCHANGED <<package, target, forthcomingVersion,
                              forthcomingHash, forthcomingDate, alreadyPublished>>
          ELSE /\ pc' = "loop"
               /\ package' = NoPackage
               /\ target' = AddOneDay(target)
               /\ forthcomingVersion' = <<>>
               /\ forthcomingHash' = <<>>
               /\ forthcomingDate' = <<>>
               /\ alreadyPublished' = FALSE
               /\ UNCHANGED failedAt
  /\ UNCHANGED <<history, registry, argv, now, decisions, registry0, run, prev>>
  /\ UNCHANGED invVars

\* what the properties need of an invocation once it has ended: its flags,
\* its clock and the registry it started from; whether no subprocess and no
\* ledger query failed; for a dry run without such a failure, its decisions;
\* for a real run that stopped on an error, the day it stopped at
NotStopped == <<>>

Summary ==
  LET clean == /\ \A i \in 1..Len(decisions) : decisions[i].outcome = "ok"
               /\ failedAt \in {"none", "duplicate"}
  IN [run |-> run, argv |-> argv, now |-> now, registry0 |-> registry0,
      clean |-> clean,
      preview |-> IF argv.dryRun /\ clean
                  THEN [i \in 1..Len(decisions) |-> decisions[i].decision]
                  ELSE <<>>,
      stoppedAt |-> IF ~argv.dryRun /\ failedAt # "none" THEN <<target>>
                    ELSE NotStopped]

\* the driver is invoked again, with any flags, after an invocation ended
Invoke ==
  /\ pc \in {"done", "failed"}
  /\ run < MaxRuns
  /\ argv' \in Flags
  /\ prev' = Summary
  /\ run' = run + 1
  /\ pc' = "start"
  /\ target' = START_DATE
  /\ forthcomingVersion' = <<>>
  /\ forthcomingHash' = <<>>
  /\ forthcomingDate' = <<>>
  /\ alreadyPublished' = FALSE
  /\ calls' = <<>>
  /\ decisions' = <<>>
  /\ registry0' = registry
  /\ failedAt' = "none"
  /\ UNCHANGED <<history, registry, now, package>>
  /\ UNCHANGED invVars

Next ==
  \/ Main
  \/ LoopTest
  \/ Clean
  \/ Build
  \/ Identify
  \/ Dedupe
  \/ Decide
  \/ Teardown
  \/ Invoke

Spec == Init /\ [][Next]_vars

(***************************************************************************)
(* Vocabulary of the properties.                                           *)
(***************************************************************************)
\* a snapshot (date-stamp or short hash) is embedded in one of the keys
SnapshotEmbedded(keys, stamp, hash) ==
  \E k \in keys : Includes(k, stamp) \/ Includes(k, hash)

CallIndices == 1..Len(calls)

DecisionIndices == 1..Len(decisions)

\* the calls of the publish step: publish and publish:dry-run
IsPublishStep(c) == c.cmd \in {"publish", "publish:dry-run"}

\* a fatal failure of a subprocess, as opposed to the duplicate error
SubprocessFailures == {"clean", "build", "publish", "teardown"}

Ended == pc \in {"done", "failed"}

\* the calendar days from START_DATE through the day of the instant n
DaysThrough(n) == DayNumber(n) - DayNumber(START_DATE) + 1

\* the midnight that starts the j-th day of the loop
DayStart(j) == START_DATE + (j - 1) * SecondsPerDay

\* this step issues the registry-mutating call
IssuesPublish ==
  /\ Len(calls') = Len(calls) + 1
  /\ calls'[Len(calls')].cmd = "publish"

(***************************************************************************)
(* C1: in a run with dry-run enabled the registry-mutating call            *)
(* (npm run publish) is never issued, on any day and for any ledger state  *)
(* and continue flag: the publish step only ever runs publish:dry-run, and *)
(* the registry holds what it held when the run started.                   *)
(***************************************************************************)
C1_DryRunNeverPublishes ==
  argv.dryRun =>
    /\ \A i \in CallIndices : calls[i].cmd # "publish"
    /\ \A i \in CallIndices :
         calls[i].line \in {89, 91} => calls[i].cmd = "publish:dry-run"
    /\ registry = registry0

\* a dry run that completed three days, with a dry-run publish among them
C1_Witness ==
  /\ argv.dryRun
  /\ pc = "done"
  /\ Len(decisions) = 3
  /\ \E i \in CallIndices : calls[i].cmd = "publish:dry-run" /\ calls[i].exit = 0

(***************************************************************************)
(* C2 as stated: whatever the flags, the earlier failures and the outcome  *)
(* of the ledger query, npm run publish is never issued for a day whose    *)
(* date-stamp or short hash is embedded in a version key the registry      *)
(* holds at that moment.                                                   *)
(***************************************************************************)
C2_NeverRepublishes ==
  [][IssuesPublish =>
       ~SnapshotEmbedded(registry, forthcomingDate, forthcomingHash)]_vars

(***************************************************************************)
(* C2 amended: npm run publish is never issued for a day whose date-stamp  *)
(* or short hash is embedded in a key of the published set the ledger      *)
(* query returned for that day; so whenever that query succeeded, it is    *)
(* never issued for a snapshot embedded in a key the registry holds.       *)
(***************************************************************************)
C2_NeverRepublishesWhatLedgerShows ==
  [][IssuesPublish =>
       LET d == decisions[Len(decisions)]
       IN /\ d.target = target
          /\ ~SnapshotEmbedded(d.keys, forthcomingDate, forthcomingHash)
          /\ d.outcome = "ok" =>
               ~SnapshotEmbedded(registry, forthcomingDate, forthcomingHash)]_vars

\* a second, real invocation meets a day the first invocation published and
\* does not publish it again
C2_Witness ==
  /\ run = 2
  /\ ~argv.dryRun
  /\ \E i \in DecisionIndices :
       /\ decisions[i].decision \in {"Skip", "Abort"}
       /\ decisions[i].outcome = "ok"
       /\ SnapshotEmbedded(registry0 \ prev.registry0, decisions[i].date,
                           decisions[i].hash)
       /\ \A j \in CallIndices :
            calls[j].target = decisions[i].target => calls[j].cmd # "publish"

(***************************************************************************)
(* C3: when a day's candidate matches the published set and continue mode  *)
(* is disabled, the run fails with the duplicate error at that day: no     *)
(* publish and no dry-run publish is issued for that day, and no later day *)
(* is built, identified or published.                                      *)
(***************************************************************************)
C3_DuplicateAborts ==
  \A i \in DecisionIndices :
    ( /\ ~argv.continue
      /\ decisions[i].decision # "pending"
      /\ SnapshotEmbedded(decisions[i].keys, decisions[i].date, decisions[i].hash) )
    => /\ decisions[i].decision = "Abort"
       /\ pc = "failed"
       /\ failedAt = "duplicate"
       /\ target = decisions[i].target
       /\ i = Len(decisions)
       /\ \A j \in CallIndices :
            /\ calls[j].target <= decisions[i].target
            /\ calls[j].target = decisions[i].target => ~IsPublishStep(calls[j])

\* the first day was published (or dry-run published), the second day is a
\* duplicate and aborts the run, with a third day still to come
C3_Witness ==
  /\ ~argv.continue
  /\ pc = "failed"
  /\ failedAt = "duplicate"
  /\ Len(decisions) = 2
  /\ decisions[1].decision = "Publish"
  /\ decisions[2].decision = "Abort"
  /\ DaysThrough(now) = 3

(***************************************************************************)
(* C4 as stated: when a day's candidate matches the published set and      *)
(* continue mode is enabled, the day is skipped without a publish or       *)
(* dry-run publish call, and the run then proceeds to the next day and     *)
(* goes on to process every remaining day up to now.                       *)
(***************************************************************************)
C4_SkipThenAllRemainingDays ==
  \A i \in DecisionIndices :
    ( /\ SnapshotEmbedded(decisions[i].keys, decisions[i].date, decisions[i].hash)
      /\ argv.continue
      /\ Ended )
    => /\ decisions[i].decision = "Skip"
       /\ \A j \in CallIndices :
            calls[j].target = decisions[i].target => ~IsPublishStep(calls[j])
       /\ Len(decisions) = DaysThrough(now)

(***************************************************************************)
(* C4 amended: when a day's candidate matches the published set and        *)
(* continue mode is enabled, the day is skipped without a publish or       *)
(* dry-run publish call and without a duplicate error; the run then        *)
(* proceeds to the next calendar day and processes every remaining day up  *)
(* to now unless a clean, build or publish subprocess fails, which stops   *)
(* the run.                                                                *)
(***************************************************************************)
C4_SkipThenRemainingDaysUnlessFailure ==
  \A i \in DecisionIndices :
    ( /\ argv.continue
      /\ decisions[i].decision # "pending"
      /\ SnapshotEmbedded(decisions[i].keys, decisions[i].date, decisions[i].hash) )
    => /\ decisions[i].decision = "Skip"
       /\ \A j \in CallIndices :
            calls[j].target = decisions[i].target => ~IsPublishStep(calls[j])
       /\ failedAt # "duplicate"
       /\ (i < Len(decisions)) =>
            decisions[i + 1].target = AddOneDay(decisions[i].target)
       /\ (Ended /\ failedAt \notin SubprocessFailures) =>
            /\ pc = "done"
            /\ Len(decisions) = DaysThrough(now)

\* the second of three days was skipped and the third day was completed
C4_Witness ==
  /\ argv.continue
  /\ pc = "done"
  /\ Len(decisions) = 3
  /\ decisions[2].decision = "Skip"
  /\ decisions[3].decision = "Publish"
  /\ \E j \in CallIndices :
       calls[j].target = decisions[3].target /\ IsPublishStep(calls[j])

(***************************************************************************)
(* Dry run against real run.  A dry invocation and the real invocation     *)
(* after it are started from the same inputs when the clock, the continue  *)
(* flag and the registry contents at their start agree (the history is the *)
(* same by construction) and no subprocess and no ledger query failed in   *)
(* either.                                                                 *)
(***************************************************************************)
LedgerAlwaysOk == \A i \in DecisionIndices : decisions[i].outcome = "ok"

DryThenRealFromSameInputs ==
  /\ prev.run > 0
  /\ prev.argv.dryRun
  /\ ~argv.dryRun
  /\ prev.argv.continue = argv.continue
  /\ prev.now = now
  /\ prev.registry0 = registry0
  /\ prev.clean
  /\ LedgerAlwaysOk
  /\ failedAt \notin SubprocessFailures
  /\ Ended

(***************************************************************************)
(* C5 as stated: started from the same inputs, a dry run and a real run    *)
(* reach the same decision (Publish, Skip or Abort) on every day.          *)
(***************************************************************************)
C5_DryRunPreviewsEveryDecision ==
  DryThenRealFromSameInputs =>
    prev.preview = [i \in DecisionIndices |-> decisions[i].decision]

(***************************************************************************)
(* C5 amended: started from the same inputs, a dry run and a real run      *)
(* execute the same steps and reach the same decision on every day the     *)
(* real run reaches, except on a day whose date-stamp or short hash is     *)
(* embedded in a version the real run itself published on an earlier day:  *)
(* that day the real run skips or aborts, while the dry run, which         *)
(* published nothing, previews Publish.                                    *)
(***************************************************************************)
C5_DryRunPreviewsUntilOwnPublish ==
  DryThenRealFromSameInputs =>
    \A i \in DecisionIndices :
      /\ i <= Len(prev.preview)
      /\ \/ prev.preview[i] = decisions[i].decision
         \/ /\ SnapshotEmbedded(decisions[i].keys \ registry0, decisions[i].date,
                                decisions[i].hash)
            /\ prev.preview[i] = "Publish"
            /\ decisions[i].decision \in {"Skip", "Abort"}

\* a dry run and a real run over three days with a published second day:
\* both publish the first day and both abort on the second
C5_Witness ==
  /\ DryThenRealFromSameInputs
  /\ DaysThrough(now) = 3
  /\ Len(decisions) = 2
  /\ decisions[1].decision = "Publish"
  /\ decisions[2].decision = "Abort"
  /\ prev.preview = <<"Publish", "Abort">>
  /\ registry # registry0

(***************************************************************************)
(* C6: a failure of the ledger query is never propagated:                  *)
(* completedReleases returns the empty set, the day's candidate is treated *)
(* as unmatched, and the run goes on to the publish step of that day       *)
(* (publish, or publish:dry-run in a dry run) instead of aborting.         *)
(***************************************************************************)
C6_LedgerFailureFailsOpen ==
  /\ failedAt # "ledger"
  /\ \A i \in CallIndices :
       (calls[i].cmd = "view" /\ calls[i].exit # 0) =>
         \E k \in DecisionIndices :
           /\ decisions[k].target = calls[i].target
           /\ decisions[k].outcome # "ok"
           /\ decisions[k].keys = {}
           /\ decisions[k].decision \in {"pending", "Publish"}
           /\ decisions[k].decision = "pending" => pc = "decide"
           /\ decisions[k].decision = "Publish" =>
                /\ i < Len(calls)
                /\ calls[i + 1].cmd = PublishScript(argv)
                /\ calls[i + 1].target = calls[i].target

\* the registry holds a version of the day, the query fails, and the real
\* publish of that day is issued
C6_Witness ==
  \E i \in DecisionIndices :
    /\ decisions[i].outcome # "ok"
    /\ SnapshotEmbedded(registry0, decisions[i].date, decisions[i].hash)
    /\ decisions[i].decision = "Publish"
    /\ \E j \in CallIndices :
         calls[j].cmd = "publish" /\ calls[j].target = decisions[i].target

(***************************************************************************)
(* C7: a failure of a day's clean or build subprocess is fatal to the      *)
(* whole run, whatever the continue flag: the run stops at that day, no    *)
(* ledger query and no publish is performed for it, and no later day is    *)
(* processed.                                                              *)
(***************************************************************************)
C7_BuildFailureIsFatal ==
  \A i \in CallIndices :
    (calls[i].line \in {55, 56} /\ calls[i].exit # 0) =>
      /\ pc = "failed"
      /\ failedAt = calls[i].cmd
      /\ i = Len(calls)
      /\ target = calls[i].target
      /\ \A j \in CallIndices :
           /\ calls[j].target <= calls[i].target
           /\ calls[j].target = calls[i].target =>
                (calls[j].cmd # "view" /\ ~IsPublishStep(calls[j]))
      /\ \A k \in DecisionIndices : decisions[k].target < calls[i].target

\* with continue enabled, the build of the second of three days fails
C7_Witness ==
  /\ argv.continue
  /\ pc = "failed"
  /\ failedAt = "build"
  /\ Len(decisions) = 1
  /\ DaysThrough(now) = 3
  /\ calls[Len(calls)].line = 56
  /\ calls[Len(calls)].exit # 0
  /\ calls[Len(calls)].target = DayStart(2)

(***************************************************************************)
(* C8: in a run with no failure and no abort the days processed are        *)
(* exactly the calendar days from the start date through the day of now,   *)
(* in ascending order, each once, each completed through its teardown      *)
(* before the next begins; with nothing published beforehand and dry-run   *)
(* on, that is one dry-run publish per day and no abort (start 2023-10-01, *)
(* now 2023-10-03T00:00:00Z: exactly three iterations).                    *)
(***************************************************************************)
BuildCalls == {i \in CallIndices : calls[i].line = 56}

DryRunPublishCalls == {i \in CallIndices : calls[i].cmd = "publish:dry-run"}

C8_DaysInOrderThroughNow ==
  pc = "done" =>
    /\ Len(decisions) = DaysThrough(now)
    /\ \A k \in DecisionIndices : decisions[k].target = DayStart(k)
    /\ Cardinality(BuildCalls) = DaysThrough(now)
    /\ \A k \in 1..DaysThrough(now) :
         Cardinality({i \in BuildCalls : calls[i].target = DayStart(k)}) = 1
    /\ Len(calls) > 0
    /\ calls[1].line = 55
    /\ calls[1].target = START_DATE
    /\ calls[Len(calls)].line = 95
    /\ calls[Len(calls)].target = StartOfDay(now)
    /\ \A i \in 1..(Len(calls) - 1) :
         \/ calls[i + 1].target = calls[i].target /\ calls[i].line # 95
         \/ /\ calls[i + 1].target = AddOneDay(calls[i].target)
            /\ calls[i].line = 95
            /\ calls[i + 1].line = 55
    /\ (now = START_DATE + 2 * SecondsPerDay) => Len(decisions) = 3
    /\ (argv.dryRun /\ registry0 = {}) =>
         /\ \A k \in DecisionIndices : decisions[k].decision = "Publish"
         /\ Cardinality(DryRunPublishCalls) = DaysThrough(now)
         /\ \A k \in 1..DaysThrough(now) :
              Cardinality({i \in DryRunPublishCalls :
                             calls[i].target = DayStart(k)}) = 1

\* the scenario of the specification: now is 2023-10-03T00:00:00Z, dry-run on,
\* nothing published, and the run completed
C8_Witness ==
  /\ pc = "done"
  /\ now = START_DATE + 2 * SecondsPerDay
  /\ argv.dryRun
  /\ ~argv.continue
  /\ registry0 = {}
  /\ Cardinality(DryRunPublishCalls) = 3

(***************************************************************************)
(* C9 as stated: once the decision for a day is taken, the teardown (the   *)
(* clean at the end of the loop body) is performed whichever decision it   *)
(* was - Publish, Skip or Abort - before the run advances or ends.  The    *)
(* publish subprocess failing is left aside: the statement is about the    *)
(* three decisions.                                                        *)
(***************************************************************************)
C9_TeardownAfterEveryDecision ==
  (Ended /\ failedAt # "publish") =>
    \A k \in DecisionIndices :
      decisions[k].decision \in {"Publish", "Skip", "Abort"} =>
        \E i \in CallIndices :
          calls[i].line = 95 /\ calls[i].target = decisions[k].target

(***************************************************************************)
(* Resumption.  The invocation before this one was a real run that stopped *)
(* at a fatal condition on the day prev.stoppedAt; this one is real too.    *)
(***************************************************************************)
ResumedRealRun ==
  /\ prev.run > 0
  /\ prev.stoppedAt # NotStopped
  /\ ~argv.dryRun

\* the versions the earlier run published
PublishedEarlier == registry0 \ prev.registry0

\* the day that starts at midnight t has a version among the keys
DayPublishedIn(keys, t) == \E v \in keys : Includes(v, ForthcomingDate(t))

(***************************************************************************)
(* C10 as stated: after a real run that stopped at a fatal condition on    *)
(* day k, re-invoking the driver resumes: the days the earlier run         *)
(* published are not published again, and every day from k up to now that  *)
(* was not yet published is published by the re-invocation (so, unless a   *)
(* subprocess of the re-invocation fails, every day from k through now has *)
(* a published version once it has ended).  Stated for the re-invocations  *)
(* whose ledger queries all succeed, the case most favourable to it.       *)
(***************************************************************************)
C10_ResumesByReinvocation ==
  (ResumedRealRun /\ LedgerAlwaysOk) =>
    /\ \A j \in CallIndices :
         calls[j].cmd = "publish" =>
           ~DayPublishedIn(PublishedEarlier, calls[j].target)
    /\ (Ended /\ failedAt \notin SubprocessFailures) =>
         \A k \in DaysThrough(prev.stoppedAt[1])..DaysThrough(now) :
           DayPublishedIn(registry, DayStart(k))

(***************************************************************************)
(* C10 amended: the run is resumable by re-invocation with continue mode   *)
(* enabled.  After a real run that stopped at a fatal condition on day k,  *)
(* a real re-invocation with continue enabled and with every ledger query  *)
(* succeeding never publishes again a day the earlier run published and    *)
(* never stops on a duplicate: each day whose date-stamp or short hash is  *)
(* embedded in a published version is skipped, and if no subprocess fails  *)
(* the re-invocation reaches every day through now and has published each  *)
(* day whose snapshot was embedded in no published version at its turn.    *)
(***************************************************************************)
C10_ResumesWithContinue ==
  (ResumedRealRun /\ argv.continue /\ LedgerAlwaysOk) =>
    /\ \A j \in CallIndices :
         calls[j].cmd = "publish" =>
           ~DayPublishedIn(PublishedEarlier, calls[j].target)
    /\ failedAt # "duplicate"
    /\ \A k \in DecisionIndices :
         decisions[k].decision # "pending" =>
           /\ decisions[k].decision \in {"Skip", "Publish"}
           /\ decisions[k].decision = "Skip" <=>
                SnapshotEmbedded(decisions[k].keys, decisions[k].date,
                                 decisions[k].hash)
    /\ (Ended /\ failedAt \notin SubprocessFailures) =>
         /\ pc = "done"
         /\ Len(decisions) = DaysThrough(now)
         /\ \A k \in DecisionIndices :
              decisions[k].decision = "Publish" =>
                VersionOf(decisions[k].date, decisions[k].hash)
                  \in registry \ registry0

\* the earlier run published the first day and stopped on the second; the
\* re-invocation skips the first day and publishes the second and the third
C10_Witness ==
  /\ ResumedRealRun
  /\ argv.continue
  /\ LedgerAlwaysOk
  /\ prev.stoppedAt = <<DayStart(2)>>
  /\ DayPublishedIn(PublishedEarlier, DayStart(1))
  /\ pc = "done"
  /\ Len(decisions) = 3
  /\ decisions[1].decision = "Skip"
  /\ decisions[2].decision = "Publish"
  /\ decisions[3].decision = "Publish"
  /\ DayPublishedIn(registry \ registry0, DayStart(2))
  /\ DayPublishedIn(registry \ registry0, DayStart(3))

(***************************************************************************)
(* C11: the dedupe check reports a match for a day if and only if at least *)
(* one key of the published set returned by the ledger query contains the  *)
(* day's date-stamp (its calendar date with the separators removed) or the *)
(* candidate's short commit hash as a substring; a candidate whose         *)
(* date-stamp and hash occur in no key is unmatched.                       *)
(***************************************************************************)
\* the calendar date of an instant, year month day, without separators
DateStamp(t) ==
  LET c == CivilFromDays(DayNumber(t))
  IN Pad(c.year, 4) \o Pad(c.month, 2) \o Pad(c.day, 2)

\* some key has the text at some offset, character by character
KeyContains(keys, text) ==
  \E k \in keys : \E off \in 0..(Len(k) - Len(text)) :
    \A j \in 1..Len(text) : k[off + j] = text[j]

\* a day's entry is written by the dedupe step and decided by the step after
\* it, which leads to the teardown or to the failure, and it is the last of
\* the log then: these are the states in which each entry is looked at
C11_MatchIffStampOrHashInSomeKey ==
  /\ \A i \in {Len(decisions)} \cap DecisionIndices :
       /\ pc = "decide" => decisions[i].date = DateStamp(decisions[i].target)
       /\ (pc \in {"teardown", "failed"} /\ decisions[i].decision # "pending") =>
            (decisions[i].decision \in {"Skip", "Abort"}
               <=> \/ KeyContains(decisions[i].keys, decisions[i].date)
                   \/ KeyContains(decisions[i].keys, decisions[i].hash))
  /\ (pc = "decide" /\ Len(decisions) > 0) =>
       (alreadyPublished
          <=> \/ KeyContains(decisions[Len(decisions)].keys, forthcomingDate)
              \/ KeyContains(decisions[Len(decisions)].keys, forthcomingHash))

\* one run meets a day that no key of a non-empty published set matches, and
\* a day that a key matches by the short hash alone
C11_Witness ==
  /\ \E i \in DecisionIndices :
       /\ decisions[i].keys # {}
       /\ decisions[i].decision = "Publish"
  /\ \E i \in DecisionIndices :
       /\ decisions[i].decision = "Skip"
       /\ ~KeyContains(decisions[i].keys, decisions[i].date)
       /\ KeyContains(decisions[i].keys, decisions[i].hash)

(***************************************************************************)
(* lib/inventory.mjs: Inventory.init() and the stages it runs              *)
(***************************************************************************)
\* how many init() calls one instance receives
MaxInits == 2

\* how many chunks the extraction subprocess writes, both streams together
MaxChunks == 2

Tab == "\t"

Newline == "\n"

\* two commits around the first instant of START_DATE: one at midnight, one
\* a second later
HistoryMidnight ==
  <<[at |-> DayStart(1), short |-> ShortHash(1)],
    [at |-> DayStart(1) + 1, short |-> ShortHash(2)]>>

InventoryHistories == Histories \cup {HistoryMidnight}

\* the date argument: absent, or a day from the day before START_DATE on
DateArgs == {Undefined} \cup {<<DayStart(j)>> : j \in 0..MaxDays}

\* the commit the default branch points to
Tip(h) == h[Len(h)].short

\* the commit git switch resolves a ref to
RevParse(h, r) == IF r = MainRef THEN Tip(h) ELSE r

\* files/en-us/_redirects.txt in the tree of a commit: one redirect, whose
\* source names the commit
RedirectsFile(short) == <<"/">> \o short \o <<Tab, "/", "b">>

\* execFileSync(cmd, args): throws when the command exits with a non-zero
\* status
execFileSync(exit) == [threw |-> exit # 0]

\* the exit status 'close' reports: a number, or null after a signal
NullCode == Undefined

CloseCodes == {<<0>>, <<1>>, NullCode}

\* the status 'close' reports for a process that could not be spawned: the
\* negated errno of the failure (ENOENT, EACCES)
SpawnFailedCodes == {<<-2>>, <<-13>>}

\* the document the extraction prints, and the chunk that follows what it
\* has written: one character at a time, the document over again once it is
\* complete; the subprocess may close after any chunk
Document == <<"{", "}">>

StdoutChunks(written) == {<<Document[(Len(written) % Len(Document)) + 1]>>}

StderrChunks == {<<"E">>}

\* a check that takes a signal for success
ExtractionFailedUnlessKilled(result) == result # NullCode /\ result[1] > 0

\* if (result === null || result > 0)
ExtractionFailed(result) == result = NullCode \/ result[1] > 0

\* resolve(value) or reject(err): settles a pending promise, and is without
\* effect on a settled one
Settle(p, state, value) ==
  IF p.state = "pending"
  THEN [state |-> state, value |-> value, settled |-> p.settled + 1]
  ELSE p

\* JSON.parse of a text over the characters { and }: the empty object, or a
\* SyntaxError
EmptyObject == <<"object">>

JsonParse(text) ==
  IF text = <<"{", "}">> THEN [threw |-> FALSE, value |-> EmptyObject]
  ELSE [threw |-> TRUE, value |-> Undefined]

\* String.prototype.split(sep)
RECURSIVE Split(_, _)
Split(s, sep) ==
  IF \A i \in 1..Len(s) : s[i] # sep THEN <<s>>
  ELSE LET k == CHOOSE i \in 1..Len(s) :
                  s[i] = sep /\ \A j \in 1..(i - 1) : s[j] # sep
       IN <<SubSeq(s, 1, k - 1)>> \o Split(SubSeq(s, k + 1, Len(s)), sep)

\* line.startsWith("/") && line.includes("\t")
IsRedirectLine(line) ==
  /\ Len(line) > 0
  /\ line[1] = "/"
  /\ Includes(line, <<Tab>>)

\* a Map that keeps the first target set for a source
MapSetKeepsFirst(m, k, v) ==
  [x \in DOMAIN m \cup {k} |-> IF x \in DOMAIN m THEN m[x] ELSE v]

\* Map.prototype.set(k, v)
MapSet(m, k, v) == [x \in DOMAIN m \cup {k} |-> IF x = k THEN v ELSE m[x]]

EmptyMap == [x \in {} |-> <<>>]

\* the loop over redirectLines, from line i on
RECURSIVE RedirectMap(_, _, _)
RedirectMap(redirectLines, i, m) ==
  IF i > Len(redirectLines) THEN m
  ELSE LET parts == Slice0(Split(redirectLines[i], Tab), 2)
           src == parts[1]
           tgt == IF Len(parts) > 1 THEN parts[2] ELSE Undefined
       IN RedirectMap(redirectLines, i + 1,
                      IF src # <<>> /\ tgt # <<>>
                      THEN MapSet(m, src, tgt) ELSE m)

\* Inventory.redirects()
redirects(raw) ==
  IF raw = Undefined THEN [threw |-> TRUE, value |-> Undefined]
  ELSE LET lines == Split(raw[1], Newline)
           redirectLines == SelectSeq(lines, IsRedirectLine)
       IN [threw |-> FALSE, value |-> <<RedirectMap(redirectLines, 1, EmptyMap)>>]

\* Inventory.metadata(): the git commands run in destPath
metadata(isCloned, head) ==
  IF isCloned THEN [threw |-> FALSE, value |-> <<head>>]
  ELSE [threw |-> TRUE, value |-> Undefined]

\* Inventory.inventory()
inventory(stdout) == JsonParse(stdout)

\* Inventory.toObject()
toObject(isCloned, head, stdout, raw) ==
  LET m == metadata(isCloned, head)
      i == inventory(stdout)
      r == redirects(raw)
  IN IF m.threw \/ i.threw \/ r.threw
     THEN [called |-> "toObject", threw |-> TRUE, value |-> Undefined]
     ELSE [called |-> "toObject", threw |-> FALSE,
           value |-> <<[metadata |-> m.value[1], inventory |-> i.value,
                        redirects |-> r.value[1]]>>]

\* a checkout() that goes from the fetch to the switch whatever the date
AfterFetchSkipsResolve(d) == "switch"

\* checkout(): if (date) { ... } after the fetch
AfterFetch(d) == IF d # Undefined THEN "resolve" ELSE "switch"

\* init() rejects with an error
Throw(err) ==
  /\ thrown' = err
  /\ inits' = Append(inits, err)
  /\ ipc' = "idle"

\* init() goes on to its next step
Proceed(step) ==
  /\ ipc' = step
  /\ UNCHANGED <<thrown, inits>>

\* a caller calls init("main", date) on the instance; what a subprocess of an
\* earlier call still emits finds its promise settled and is left out
CallInit ==
  /\ ipc = "idle"
  /\ Len(inits) < MaxInits
  /\ dateArg' \in DateArgs
  /\ checkoutRef' = MainRef
  /\ stages' = <<>>
  /\ logged' = <<>>
  /\ thrown' = "none"
  /\ artifact' = NoResult
  /\ child' = NoChild
  /\ promise' = NoPromise
  /\ ipc' = "clone"
  /\ UNCHANGED <<cloned, HEAD, rawInventoryStdOut, rawInventoryStdErr,
                 rawRedirects, inits, parses>>
  /\ UNCHANGED vars

\* this.clone()
InventoryClone ==
  /\ ipc = "clone"
  /\ stages' = Append(stages, "clone")
  /\ IF ~cloned
     THEN \E exit \in ExitCodes :
            IF execFileSync(exit).threw
            THEN Throw("CloneError") /\ UNCHANGED <<cloned, HEAD>>
            ELSE cloned' = TRUE /\ HEAD' = Tip(history) /\ Proceed("fetch")
     ELSE Proceed("fetch") /\ UNCHANGED <<cloned, HEAD>>
  /\ UNCHANGED <<dateArg, checkoutRef, rawInventoryStdOut, rawInventoryStdErr,
                 rawRedirects, child, promise, logged, artifact, parses>>
  /\ UNCHANGED vars

\* checkout(): git fetch origin
Fetch ==
  /\ ipc = "fetch"
  /\ stages' = Append(stages, "fetch")
  /\ \E exit \in ExitCodes :
       IF execFileSync(exit).threw THEN Throw("CheckoutError")
       ELSE Proceed(AfterFetch(dateArg))
  /\ UNCHANGED <<cloned, HEAD, dateArg, checkoutRef, rawInventoryStdOut,
                 rawInventoryStdErr, rawRedirects, child, promise, logged,
                 artifact, parses>>
  /\ UNCHANGED vars

\* checkout(): if (date) { ... git rev-list -1 --before ... ref = hash }
Resolve ==
  /\ ipc = "resolve"
  /\ stages' = Append(stages, "resolve")
  /\ \E exit \in ExitCodes :
       IF execFileSync(exit).threw
       THEN Throw("CheckoutError") /\ UNCHANGED checkoutRef
       ELSE LET hash == CheckoutHash(history, dateArg[1])
            IN IF hash = NoCommit
               THEN Throw("NoCommitFound") /\ UNCHANGED checkoutRef
               ELSE checkoutRef' = hash /\ Proceed("switch")
  /\ UNCHANGED <<cloned, HEAD, dateArg, rawInventoryStdOut,
                 rawInventoryStdErr, rawRedirects, child, promise, logged,
                 artifact, parses>>
  /\ UNCHANGED vars

\* checkout(): git switch --quiet --detach ref
Switch ==
  /\ ipc = "switch"
  /\ stages' = Append(stages, "checkout")
  /\ \E exit \in ExitCodes :
       IF execFileSync(exit).threw
       THEN Throw("CheckoutError") /\ UNCHANGED HEAD
       ELSE HEAD' = RevParse(history, checkoutRef) /\ Proceed("loadRedirects")
  /\ UNCHANGED <<cloned, dateArg, checkoutRef, rawInventoryStdOut,
                 rawInventoryStdErr, rawRedirects, child, promise, logged,
                 artifact, parses>>
  /\ UNCHANGED vars

\* this.loadRedirects(): readFileSync throws when the tree has no such file
LoadRedirects ==
  /\ ipc = "loadRedirects"
  /\ stages' = Append(stages, "redirects")
  /\ \E exists \in BOOLEAN :
       IF exists
       THEN /\ rawRedirects' = <<RedirectsFile(HEAD)>>
            /\ parses' = 0
            /\ Proceed("installDeps")
       ELSE Throw("RedirectsError") /\ UNCHANGED <<rawRedirects, parses>>
  /\ UNCHANGED <<cloned, HEAD, dateArg, checkoutRef, rawInventoryStdOut,
                 rawInventoryStdErr, child, promise, logged, artifact>>
  /\ UNCHANGED vars

\* this.installDeps(): npm ci
InstallDeps ==
  /\ ipc = "installDeps"
  /\ stages' = Append(stages, "install")
  /\ \E exit \in ExitCodes :
       IF execFileSync(exit).threw THEN Throw("DependencyInstallError")
       ELSE Proceed("loadInventory")
  /\ UNCHANGED <<cloned, HEAD, dateArg, checkoutRef, rawInventoryStdOut,
                 rawInventoryStdErr, rawRedirects, child, promise, logged,
                 artifact, parses>>
  /\ UNCHANGED vars

\* this.loadInventory(): spawn, attach the handlers, return the promise;
\* init() awaits it.  The process starts, or cannot be spawned.
LoadInventory ==
  /\ ipc = "loadInventory"
  /\ stages' = Append(stages, "extraction")
  /\ \E started \in BOOLEAN :
       child' = [state |-> IF started THEN "running" ELSE "unstarted",
                 out |-> <<>>, err |-> <<>>]
  /\ promise' = [state |-> "pending", value |-> Undefined, settled |-> 0]
  /\ Proceed("await")
  /\ UNCHANGED <<cloned, HEAD, dateArg, checkoutRef, rawInventoryStdOut,
                 rawInventoryStdErr, rawRedirects, logged, artifact, parses>>
  /\ UNCHANGED vars

\* the event loop delivers an event of the child: init() is suspended at its
\* await, or has ended; a settled promise resumes init() before any event
EventLoopTurn ==
  \/ ipc = "await" /\ promise.state = "pending"
  \/ ipc = "idle"

\* process.stdout.on("data", ...)
StdoutData ==
  /\ EventLoopTurn
  /\ child.state = "running"
  /\ Len(child.out) + Len(child.err) < MaxChunks
  /\ \E chunk \in StdoutChunks(child.out) :
       /\ rawInventoryStdOut' = rawInventoryStdOut \o chunk
       /\ child' = [child EXCEPT !.out = @ \o chunk]
  /\ UNCHANGED <<cloned, HEAD, ipc, dateArg, checkoutRef, rawInventoryStdErr,
                 rawRedirects, promise, stages, logged, thrown, inits,
                 artifact, parses>>
  /\ UNCHANGED vars

\* process.stderr.on("data", ...)
StderrData ==
  /\ EventLoopTurn
  /\ child.state = "running"
  /\ Len(child.out) + Len(child.err) < MaxChunks
  /\ \E chunk \in StderrChunks :
       /\ rawInventoryStdErr' = rawInventoryStdErr \o chunk
       /\ child' = [child EXCEPT !.err = @ \o chunk]
  /\ UNCHANGED <<cloned, HEAD, ipc, dateArg, checkoutRef, rawInventoryStdOut,
                 rawRedirects, promise, stages, logged, thrown, inits,
                 artifact, parses>>
  /\ UNCHANGED vars

\* process.on("error", ...): the process could not be spawned
ChildError ==
  /\ EventLoopTurn
  /\ child.state = "unstarted"
  /\ promise' = Settle(promise, "rejected", Undefined)
  /\ child' = [child EXCEPT !.state = "errored"]
  /\ UNCHANGED <<cloned, HEAD, ipc, dateArg, checkoutRef, rawInventoryStdOut,
                 rawInventoryStdErr, rawRedirects, stages, logged, thrown,
                 inits, artifact, parses>>
  /\ UNCHANGED vars

\* process.on("close", ...): after the streams ended, or after 'error'
Close ==
  /\ EventLoopTurn
  /\ child.state \in {"running", "errored"}
  /\ \E code \in IF child.state = "running" THEN CloseCodes
                 ELSE SpawnFailedCodes :
       promise' = Settle(promise, "resolved", code)
  /\ child' = [child EXCEPT !.state = "closed"]
  /\ UNCHANGED <<cloned, HEAD, ipc, dateArg, checkoutRef, rawInventoryStdOut,
                 rawInventoryStdErr, rawRedirects, stages, logged, thrown,
                 inits, artifact, parses>>
  /\ UNCHANGED vars

\* const result = await this.loadInventory(); if (...) { logger.error; throw }
AwaitLoadInventory ==
  /\ ipc = "await"
  /\ promise.state \in {"resolved", "rejected"}
  /\ IF promise.state = "rejected"
     THEN Throw("SpawnError") /\ UNCHANGED logged
     ELSE IF ExtractionFailed(promise.value)
          THEN /\ logged' = Append(logged, rawInventoryStdErr)
               /\ Throw("ExtractionError")
          ELSE /\ inits' = Append(inits, "ok")
               /\ ipc' = "idle"
               /\ UNCHANGED <<logged, thrown>>
  /\ UNCHANGED <<cloned, HEAD, dateArg, checkoutRef, rawInventoryStdOut,
                 rawInventoryStdErr, rawRedirects, child, promise, stages,
                 artifact, parses>>
  /\ UNCHANGED vars

\* a caller calls toObject() on the instance
ToObject ==
  /\ ipc = "idle"
  /\ artifact.called # "toObject"
  /\ artifact' = toObject(cloned, HEAD, rawInventoryStdOut, rawRedirects)
  /\ UNCHANGED <<cloned, HEAD, ipc, dateArg, checkoutRef, rawInventoryStdOut,
                 rawInventoryStdErr, rawRedirects, child, promise, stages,
                 logged, thrown, inits, parses>>
  /\ UNCHANGED vars

\* a caller calls cleanUp() on the instance: rmSync(destPath, { recursive:
\* true, force: true }) removes the working copy, or finds none to remove
CleanUp ==
  /\ ipc = "idle"
  /\ cloned' = FALSE
  /\ HEAD' = Undefined
  /\ artifact' = NoResult
  /\ UNCHANGED <<ipc, dateArg, checkoutRef, rawInventoryStdOut,
                 rawInventoryStdErr, rawRedirects, child, promise, stages,
                 logged, thrown, inits, parses>>
  /\ UNCHANGED vars

\* the driver does not run
DriverIdle ==
  /\ registry = {}
  /\ argv = [dryRun |-> TRUE, continue |-> FALSE]
  /\ now = START_DATE
  /\ target = START_DATE
  /\ pc = "done"
  /\ package = NoPackage
  /\ forthcomingVersion = <<>>
  /\ forthcomingHash = <<>>
  /\ forthcomingDate = <<>>
  /\ alreadyPublished = FALSE
  /\ calls = <<>>
  /\ decisions = <<>>
  /\ registry0 = {}
  /\ failedAt = "none"
  /\ run = MaxRuns
  /\ prev = NoPrev

InitInventory ==
  /\ history \in InventoryHistories
  /\ DriverIdle
  /\ Constructor

NextInventory ==
  \/ CallInit
  \/ InventoryClone
  \/ Fetch
  \/ Resolve
  \/ Switch
  \/ LoadRedirects
  \/ InstallDeps
  \/ LoadInventory
  \/ StdoutData
  \/ StderrData
  \/ ChildError
  \/ Close
  \/ AwaitLoadInventory
  \/ ToObject
  \/ CleanUp

allVars == <<vars, invVars>>

SpecInventory == InitInventory /\ [][NextInventory]_allVars

(***************************************************************************)
(* Vocabulary of the claims about Inventory                                *)
(***************************************************************************)
\* init() was given a date and checkout() resolved it to a commit
Resolved == dateArg # Undefined /\ checkoutRef # MainRef

\* the first instant (00:00:00 UTC) of the day of an instant
Midnight(t) == DayNumber(t) * SecondsPerDay

\* the commits of a history made at or before an instant
CommitsUpTo(h, t) == {i \in 1..Len(h) : h[i].at <= t}

\* the place of a commit in a history
CommitIndex(h, short) == CHOOSE i \in 1..Len(h) : h[i].short = short

\* a commit made during the day of an instant, more than a second after its
\* midnight and before the next midnight
MadeDuringDay(c, t) ==
  /\ c.at > Midnight(t) + 1
  /\ c.at < Midnight(t) + SecondsPerDay

(***************************************************************************)
(* C12 as stated: for a target day D the resolved commit is the state of   *)
(* the reference at the end of day D; a commit made during D (after        *)
(* 00:00:01 UTC and before the next midnight) is included in the snapshot  *)
(* resolved for D.                                                         *)
(***************************************************************************)
C12_ResolvesEndOfDay ==
  Resolved =>
    \A i \in 1..Len(history) :
      MadeDuringDay(history[i], dateArg[1])
        => CommitIndex(history, checkoutRef) >= i

(***************************************************************************)
(* C12, amended: for a target day D the resolved commit is the state of    *)
(* the reference at the beginning of day D: the newest commit made at or   *)
(* before 00:00:00 UTC of D.  A commit made later during D is not part of  *)
(* the snapshot resolved for D.                                            *)
(***************************************************************************)
C12_ResolvesBeginningOfDay ==
  Resolved =>
    LET k == CommitIndex(history, checkoutRef)
    IN /\ history[k].at <= Midnight(dateArg[1])
       /\ \A i \in 1..Len(history) :
            /\ history[i].at <= Midnight(dateArg[1]) => i <= k
            /\ MadeDuringDay(history[i], dateArg[1]) => i > k

\* a day was resolved on which a commit was made at noon
C12_Witness ==
  /\ Resolved
  /\ ipc = "switch"
  /\ \E i \in 1..Len(history) : MadeDuringDay(history[i], dateArg[1])

(***************************************************************************)
(* C13 as stated: for every target date the cutoff passed to the commit    *)
(* listing is 00:00:01 UTC of that date, so the newest commit made up to   *)
(* 00:00:01 is the one resolved (a commit made at exactly midnight is at   *)
(* or before the cutoff).                                                  *)
(***************************************************************************)
C13_CutoffIsOneSecondPastMidnight ==
  dateArg # Undefined =>
    /\ CheckoutTarget(dateArg[1]) = Midnight(dateArg[1]) + 1
    /\ Resolved =>
         \A i \in CommitsUpTo(history, Midnight(dateArg[1]) + 1) :
           i <= CommitIndex(history, checkoutRef)

(***************************************************************************)
(* C14: resolution returns the most recent commit of the reference at or   *)
(* before the cutoff; if there is none, checkout fails with the            *)
(* no-commit-found error, the working copy is not switched (HEAD stays as  *)
(* it was) and no later stage (redirect load, dependency install,          *)
(* extraction) runs.                                                       *)
(***************************************************************************)
LaterStages == {"checkout", "redirects", "install", "extraction"}

StagesStarted == {stages[i] : i \in 1..Len(stages)}

C14_MostRecentOrNoCommitFound ==
  /\ [](Resolved =>
          LET k == CommitIndex(history, checkoutRef)
              upto == CommitsUpTo(history, CheckoutTarget(dateArg[1]))
          IN k \in upto /\ \A i \in upto : i <= k)
  /\ [](thrown = "NoCommitFound" =>
          /\ dateArg # Undefined
          /\ CommitsUpTo(history, CheckoutTarget(dateArg[1])) = {}
          /\ ipc = "idle"
          /\ StagesStarted \cap LaterStages = {})
  /\ [][(ipc = "resolve" /\ ipc' # "resolve"
           /\ CommitsUpTo(history, CheckoutTarget(dateArg[1])) = {})
          => /\ thrown' \in {"NoCommitFound", "CheckoutError"}
             /\ HEAD' = HEAD]_allVars
  /\ [][(thrown = "NoCommitFound" /\ thrown' = "NoCommitFound" /\ ~CleanUp)
          => HEAD' = HEAD /\ rawRedirects' = rawRedirects]_allVars

\* a day with several commits up to its cutoff was resolved and switched to,
\* and a later call for a day before the first commit found none
C14_Witness ==
  /\ thrown = "NoCommitFound"
  /\ Len(inits) > 1
  /\ inits[1] = "ok"
  /\ cloned
  /\ HEAD # Tip(history)
  /\ Len(history) > 1

\* the init() call has ended, and it had started the extraction
ExtractionEnded ==
  /\ ipc = "idle"
  /\ Len(stages) > 0
  /\ stages[Len(stages)] = "extraction"

\* the extraction of the init() call that ended: exit status zero, another
\* status or none (killed), or the process could not be spawned
ExitedZero == promise.state = "resolved" /\ promise.value = <<0>>

ExitedOtherwise == promise.state = "resolved" /\ promise.value # <<0>>

CouldNotStart == promise.state = "rejected"

(***************************************************************************)
(* C15 as stated: init fails with the extraction error whenever the        *)
(* extraction exits with a non-zero status or with an unknown status       *)
(* (killed, or the process could not start), and in every such case the    *)
(* standard-error buffer is logged before the failure reaches the caller;  *)
(* init succeeds only when the exit status is exactly zero.                *)
(***************************************************************************)
C15_EveryExtractionFailureIsLogged ==
  ExtractionEnded =>
    /\ thrown = "none" <=> ExitedZero
    /\ ~ExitedZero =>
         /\ thrown = "ExtractionError"
         /\ logged = <<rawInventoryStdErr>>

(***************************************************************************)
(* C15, amended: init fails with the extraction error, after logging the   *)
(* standard-error buffer, whenever the extraction subprocess closes with a *)
(* non-zero status or with none (killed by a signal).  When the process    *)
(* could not be started, init fails with the spawn error itself and logs   *)
(* nothing.  init succeeds only when the exit status is exactly zero.      *)
(***************************************************************************)
C15_ExtractionFailureLoggedUnlessSpawnFailed ==
  ExtractionEnded =>
    /\ thrown = "none" <=> ExitedZero
    /\ thrown = "none" => inits[Len(inits)] = "ok" /\ logged = <<>>
    /\ ExitedOtherwise =>
         /\ thrown = "ExtractionError"
         /\ inits[Len(inits)] = "ExtractionError"
         /\ logged = <<rawInventoryStdErr>>
    /\ CouldNotStart =>
         /\ thrown = "SpawnError"
         /\ inits[Len(inits)] = "SpawnError"
         /\ logged = <<>>

\* a call whose subprocess could not be spawned, then a call whose subprocess
\* wrote to standard error and was killed
C15_Witness ==
  /\ ExtractionEnded
  /\ Len(inits) > 1
  /\ inits[1] = "SpawnError"
  /\ promise.state = "resolved"
  /\ promise.value = NullCode
  /\ thrown = "ExtractionError"
  /\ logged # <<>>
  /\ logged[1] # <<>>

\* the init() call that ended last failed
LastInitFailed ==
  /\ ipc = "idle"
  /\ Len(inits) > 0
  /\ inits[Len(inits)] # "ok"

(***************************************************************************)
(* C16 as stated: no partial or degraded artifact is ever returned: for    *)
(* every stage at which init can fail, after init has failed toObject() on *)
(* that Inventory does not return an artifact.                             *)
(***************************************************************************)
C16_NoArtifactAfterFailedInit ==
  (LastInitFailed /\ artifact.called = "toObject") => artifact.threw

(***************************************************************************)
(* C18: init runs its stages in the fixed order clone-or-reuse, fetch,     *)
(* resolve (when a date is given), checkout, read redirect file, install   *)
(* dependencies, extraction, each started only after the one before it     *)
(* succeeded; a failing stage ends init at once, without retry and without *)
(* any later stage; the redirect text is read from the tree of the commit  *)
(* this call checked out, never from an earlier checkout.                  *)
(***************************************************************************)
StageOrder ==
  <<"clone", "fetch", "resolve", "checkout", "redirects", "install",
    "extraction">>

StageOrderOf(d) ==
  IF d # Undefined THEN StageOrder
  ELSE SelectSeq(StageOrder, LAMBDA st : st # "resolve")

\* the commit an init() call is to check out
CommitToCheckOut ==
  IF dateArg = Undefined THEN history[Len(history)].short
  ELSE LET upto == CommitsUpTo(history, CheckoutTarget(dateArg[1]))
       IN history[CHOOSE k \in upto : \A i \in upto : i <= k].short

\* the stage of this call that reads the redirect file has succeeded
RedirectsLoaded ==
  /\ \E i \in 1..Len(stages) : stages[i] = "redirects"
  /\ \/ stages[Len(stages)] # "redirects"
     \/ ipc = "installDeps"

C18_StagesInOrderAndFailFast ==
  /\ [](stages = SubSeq(StageOrderOf(dateArg), 1, Len(stages)))
  /\ [](thrown # "none" => ipc = "idle")
  /\ [](RedirectsLoaded =>
          /\ cloned => HEAD = CommitToCheckOut
          /\ ipc # "idle" => cloned
          /\ rawRedirects = <<RedirectsFile(CommitToCheckOut)>>)
  /\ [][(thrown = "none" /\ thrown' # "none")
          => /\ stages' = stages \/ SubSeq(stages', 1, Len(stages)) = stages
             /\ Len(stages') <= Len(stages) + 1
             /\ ipc' = "idle"]_allVars
  /\ [][(thrown # "none" /\ thrown' # "none") => stages' = stages]_allVars

\* the second call on an instance failed at the dependency install, after it
\* checked out another commit than the first call and read its redirect file
C18_Witness ==
  /\ Len(inits) > 1
  /\ inits[1] = "ok"
  /\ thrown = "DependencyInstallError"
  /\ stages = SubSeq(StageOrder, 1, Len(stages))
  /\ stages[Len(stages)] = "install"
  /\ HEAD # Tip(history)
  /\ rawRedirects = <<RedirectsFile(HEAD)>>

(***************************************************************************)
(* C19 as stated: for every interleaving of stdout chunk, stderr chunk,    *)
(* error and close events, when loadInventory's promise settles the stdout *)
(* buffer is the in-order concatenation of exactly the stdout chunks and   *)
(* the stderr buffer that of exactly the stderr chunks, the promise        *)
(* settles exactly once, and init does not go past the extraction step     *)
(* before it settles.                                                      *)
(***************************************************************************)
C19_BuffersHoldExactlyTheChunks ==
  /\ promise.state \in {"resolved", "rejected"} =>
       /\ rawInventoryStdOut = child.out
       /\ rawInventoryStdErr = child.err
       /\ promise.settled = 1
  /\ promise.state = "pending" => ipc = "await"

(***************************************************************************)
(* C20 as stated: after any sequence of successful init() calls the        *)
(* stdout and stderr buffers hold nothing from earlier init() calls, so    *)
(* inventory() parses only the standard output of the most recent          *)
(* extraction, and redirects() reflects only the redirect text loaded      *)
(* last.                                                                   *)
(***************************************************************************)
AllInitsSucceeded ==
  /\ ipc = "idle"
  /\ Len(inits) > 0
  /\ \A i \in 1..Len(inits) : inits[i] = "ok"

C20_NothingCarriedOver ==
  AllInitsSucceeded =>
    /\ rawInventoryStdOut = child.out
    /\ rawInventoryStdErr = child.err
    /\ inventory(rawInventoryStdOut) = JsonParse(child.out)
    /\ redirects(rawRedirects) = redirects(<<RedirectsFile(CommitToCheckOut)>>)

(***************************************************************************)
(* Inventory.redirects() on the raw texts an instance can hold             *)
(***************************************************************************)
\* how many lines a redirect file has
MaxLines == 2

\* how often redirects() is called on one text
MaxParses == 2

\* what stands between the tabs of a line
FieldChoices == {<<>>, <<"/">>, <<"/", "a">>, <<"b">>}

\* lines of one field, of two fields, and of two fields and a third
LineChoices ==
  {f : f \in FieldChoices}
    \cup {f \o <<Tab>> \o g : f \in FieldChoices, g \in FieldChoices}
    \cup {f \o <<Tab>> \o g \o <<Tab, "b">> :
            f \in FieldChoices, g \in FieldChoices}

\* the texts of n lines
RECURSIVE TextsOf(_)
TextsOf(n) ==
  IF n = 1 THEN LineChoices
  ELSE {t \o <<Newline>> \o l : t \in TextsOf(n - 1), l \in LineChoices}

\* rawRedirects: undefined before loadRedirects(), then the text of the file
RawTexts ==
  {Undefined} \cup {<<t>> : t \in UNION {TextsOf(n) : n \in 1..MaxLines}}

\* a caller calls redirects() on the instance
ParseRedirects ==
  /\ ipc = "idle"
  /\ parses < MaxParses
  /\ artifact' = [called |-> "redirects",
                  threw |-> redirects(rawRedirects).threw,
                  value |-> redirects(rawRedirects).value]
  /\ parses' = parses + 1
  /\ UNCHANGED <<cloned, HEAD, ipc, dateArg, checkoutRef, rawInventoryStdOut,
                 rawInventoryStdErr, rawRedirects, child, promise, stages,
                 logged, thrown, inits>>
  /\ UNCHANGED vars

\* an instance that holds any raw text
InitRedirects ==
  /\ history = HistoryOnce
  /\ DriverIdle
  /\ cloned = TRUE
  /\ HEAD = Tip(history)
  /\ ipc = "idle"
  /\ dateArg = Undefined
  /\ checkoutRef = MainRef
  /\ rawInventoryStdOut = <<>>
  /\ rawInventoryStdErr = <<>>
  /\ rawRedirects \in RawTexts
  /\ child = NoChild
  /\ promise = NoPromise
  /\ stages = <<>>
  /\ logged = <<>>
  /\ thrown = "none"
  /\ inits = <<>>
  /\ artifact = NoResult
  /\ parses = 0

NextRedirects == ParseRedirects

SpecRedirects == InitRedirects /\ [][NextRedirects]_allVars

(***************************************************************************)
(* C17: for every raw text redirects() returns exactly the table with an   *)
(* entry source -> target for each line that starts with '/', contains a   *)
(* tab, and whose first two tab-delimited fields are both non-empty; every *)
(* other line is dropped without error; when several retained lines share  *)
(* a source, the target of the last of them is in the table; parsing the   *)
(* same text twice yields identical tables.                                *)
(***************************************************************************)
\* the places around the lines of a text: before it, its newlines, after it
LineBreaks(text) ==
  {0, Len(text) + 1} \cup {i \in 1..Len(text) : text[i] = Newline}

\* the line that starts after a break
LineAfter(text, b) ==
  LET e == CHOOSE x \in LineBreaks(text) :
             x > b /\ \A y \in LineBreaks(text) : y > b => x <= y
  IN SubSeq(text, b + 1, e - 1)

LineStarts(text) == LineBreaks(text) \ {Len(text) + 1}

TabsOf(line) == {i \in 1..Len(line) : line[i] = Tab}

\* the fields of a line that has a tab: what is before its first tab, and
\* what is between that tab and the next tab or the end
FirstField(line) ==
  SubSeq(line, 1, (CHOOSE i \in TabsOf(line) : \A j \in TabsOf(line) : i <= j) - 1)

SecondField(line) ==
  LET i == CHOOSE x \in TabsOf(line) : \A j \in TabsOf(line) : x <= j
      after == {x \in TabsOf(line) \cup {Len(line) + 1} : x > i}
  IN SubSeq(line, i + 1, (CHOOSE x \in after : \A y \in after : x <= y) - 1)

Retained(line) ==
  /\ line # <<>>
  /\ Head(line) = "/"
  /\ TabsOf(line) # {}
  /\ FirstField(line) # <<>>
  /\ SecondField(line) # <<>>

RetainedStarts(text) == {b \in LineStarts(text) : Retained(LineAfter(text, b))}

\* the table the claim describes
TableOf(text) ==
  [s \in {FirstField(LineAfter(text, b)) : b \in RetainedStarts(text)} |->
     LET with == {b \in RetainedStarts(text) : FirstField(LineAfter(text, b)) = s}
     IN SecondField(LineAfter(text, CHOOSE b \in with : \A c \in with : c <= b))]

C17_RedirectTable ==
  /\ [](artifact.called = "redirects" =>
          IF rawRedirects = Undefined THEN artifact.threw
          ELSE /\ ~artifact.threw
               /\ artifact.value = <<TableOf(rawRedirects[1])>>)
  /\ [][(artifact.called = "redirects" /\ parses' > parses)
          => artifact' = artifact]_allVars

\* a text of two retained lines with the same source and different targets
\* was parsed twice
C17_Witness ==
  /\ artifact.called = "redirects"
  /\ parses = MaxParses
  /\ rawRedirects # Undefined
  /\ Cardinality(RetainedStarts(rawRedirects[1])) > 1
  /\ Cardinality(DOMAIN artifact.value[1]) = 1
  /\ \E b \in RetainedStarts(rawRedirects[1]) :
       \E s \in DOMAIN artifact.value[1] :
         /\ FirstField(LineAfter(rawRedirects[1], b)) = s
         /\ SecondField(LineAfter(rawRedirects[1], b)) # artifact.value[1][s]

====
